---- MODULE Spec2Model ----
(***************************************************************************)
(* Sessions, authentication middleware, collection ownership and database *)
(* retries of the Memri photo album server:                                *)
(*   server/auth.ts                 AuthService, requireAuth, optionalAuth *)
(*   server/databaseSessionStore.ts DatabaseSessionStore (unnamed/part_001)*)
(*   server/storage.ts              DbStorage            (unnamed/part_003)*)
(*   server/routes.ts               withDatabaseRetry, /api/auth/login,    *)
(*                                  /api/auth/logout, POST                 *)
(*                                  /api/collections, POST /api/photos,    *)
(*                                  PUT and DELETE /api/collections/:id    *)
(*                                                    (unnamed/part_005) *)
(*                                                                         *)
(* db holds the collections, collection_owners and photos tables and the   *)
(* uploads directory; rt is the call of withDatabaseRetry in progress;     *)
(* sweeps are the executions of cleanExpiredSessions in progress.          *)
(*                                                                         *)
(* Time is the millisecond clock read by Date.now() / new Date().  The     *)
(* sessions table is a function from session ids to rows; the bookkeeping  *)
(* columns created_at / updated_at are written but never read by the       *)
(* server and are left out of the rows.                                    *)
(***************************************************************************)
EXTENDS Integers, FiniteSets, Sequences, TLC

VARIABLES now, sessions, last, pc, loc, db, rt, sweeps

vars == <<now, sessions, last, pc, loc, db, rt, sweeps>>

----------------------------------------------------------------------------
(* Bounds *)

\* last day (counted from the start of the run) at which the clock is sampled
MaxDay == 7

----------------------------------------------------------------------------
(* Constants of the program *)

SECOND == 1000
HOUR == 60 * 60 * 1000
DAY == 24 * 60 * 60 * 1000

SESSION_DURATION == 7 * 24 * 60 * 60 * 1000
SESSION_REFRESH_THRESHOLD == 24 * 60 * 60 * 1000

----------------------------------------------------------------------------
(* Input domains *)

\* session ids generateSessionId yields
Tokens == {"s1", "s2"}

\* requests in flight at once in the interleaved specification
Procs == {"req1", "req2"}

\* instants at which the clock is read: day 0 and the days around the
\* refresh threshold and the expiry of a session created on day 0, each
\* exactly, one second later and one hour later
Days == {0} \cup (6..MaxDay)
Offsets == {0, SECOND, HOUR}
Instants == {d * DAY + o : d \in Days, o \in Offsets}

\* an optional value is the empty sequence or a sequence of one element
None == << >>
Some(x) == <<x>>
The(o) == o[1]

\* bcrypt.hash / bcrypt.compare: the hash is opaque, compare recomputes it
hashPassword(password) == <<"bcrypt", password>>

verifyPassword(password, hashedPassword) == hashPassword(password) = hashedPassword

\* rows of the users table (the two accounts seeded by initializeUsers); the
\* columns profile_picture, created_at and updated_at play no part in the
\* session lifecycle and are left out
users == {
    [id |-> 1, username |-> "karold", password |-> hashPassword("karold123"),
     displayName |-> "Karold"],
    [id |-> 2, username |-> "androso", password |-> hashPassword("androso123"),
     displayName |-> "Androso"] }

\* request bodies tried against POST /api/auth/login
LoginUsernames == {"karold", "nobody", ""}
LoginPasswords == {"karold123", "wrong"}

\* SELECT ... FROM users WHERE username = $1, first row
getUserByUsername(username) ==
    IF \E u \in users : u.username = username
    THEN Some(CHOOSE u \in users : u.username = username)
    ELSE None

\* SELECT ... FROM users WHERE id = $1, first row
getUser(id) ==
    IF \E u \in users : u.id = id
    THEN Some(CHOOSE u \in users : u.id = id)
    ELSE None

\* mutant: the password field is not stripped
userWithoutPassword_keepsPassword(user) == user

\* const { password, ...userWithoutPassword } = user
userWithoutPassword(user) == [f \in (DOMAIN user) \ {"password"} |-> user[f]]

\* loginSchema: both fields are strings of length >= 1
validLogin(body) == body.username # "" /\ body.password # ""

----------------------------------------------------------------------------
(* Statements on the sessions table *)

\* INSERT ... ON CONFLICT (id) DO UPDATE
dbUpsert(S, id, data) ==
    [t \in (DOMAIN S) \cup {id} |-> IF t = id THEN data ELSE S[t]]

\* SELECT ... WHERE id = $1 LIMIT 1
dbSelect(S, id) == IF id \in DOMAIN S THEN Some(S[id]) ELSE None

\* DELETE ... WHERE id = $1
dbDelete(S, id) == [t \in (DOMAIN S) \ {id} |-> S[t]]

\* lt(sessions.expiresAt, new Date())
isExpired(row, t) == row.expiresAt < t

\* DELETE ... WHERE expires_at < $1
dbDeleteExpired(S, t) == [x \in {y \in DOMAIN S : ~isExpired(S[y], t)} |-> S[x]]

----------------------------------------------------------------------------
(* DatabaseSessionStore: each method returns the table it leaves, its      *)
(* result, and whether it threw.  ok flags say whether the database        *)
(* executed the statement or raised an error.                              *)

\* set: the error of a failed statement is logged and rethrown
storeSet(S, id, data, ok) ==
    IF ok THEN [store |-> dbUpsert(S, id, data), threw |-> FALSE]
          ELSE [store |-> S, threw |-> TRUE]

\* mutant: delete rethrows the error of a failed statement, as set does
storeDelete_rethrows(S, id, ok) ==
    IF ok THEN [store |-> dbDelete(S, id), ret |-> id \in DOMAIN S, threw |-> FALSE]
          ELSE [store |-> S, ret |-> FALSE, threw |-> TRUE]

\* delete: a failed statement is logged and reported as false
storeDelete(S, id, ok) ==
    IF ok THEN [store |-> dbDelete(S, id), ret |-> id \in DOMAIN S, threw |-> FALSE]
          ELSE [store |-> S, ret |-> FALSE, threw |-> FALSE]

\* mutant: a row that is found is removed by the lookup
storeGet_consumes(S, id, t, selOk, delOk) ==
    IF ~selOk THEN [store |-> S, ret |-> None]
    ELSE [store |-> dbDelete(S, id), ret |-> dbSelect(S, id)]

\* get: an expired row is deleted and reported as undefined; a failed
\* select is logged and reported as undefined
storeGet(S, id, t, selOk, delOk) ==
    IF ~selOk THEN [store |-> S, ret |-> None]
    ELSE IF dbSelect(S, id) = None THEN [store |-> S, ret |-> None]
    ELSE IF isExpired(The(dbSelect(S, id)), t)
         THEN [store |-> storeDelete(S, id, delOk).store, ret |-> None]
    ELSE [store |-> S, ret |-> dbSelect(S, id)]

\* mutant: the sweep deletes nothing
storeCleanExpiredSessions_nothing(S, t, ok) == [store |-> S, ret |-> 0]

\* cleanExpiredSessions: a failed statement is logged and swallowed
storeCleanExpiredSessions(S, t, ok) ==
    IF ok THEN [store |-> dbDeleteExpired(S, t),
                ret |-> Cardinality((DOMAIN S) \ DOMAIN dbDeleteExpired(S, t))]
          ELSE [store |-> S, ret |-> 0]

\* mutant: the sessions of every user are deleted
storeDeleteUserSessions_everyone(S, userId, ok) ==
    IF ok THEN [store |-> [t \in {} |-> S[t]], ret |-> Cardinality(DOMAIN S)]
          ELSE [store |-> S, ret |-> 0]

\* deleteUserSessions: DELETE ... WHERE user_id = $1, the row count
\* returned; a failed statement is logged and reported as 0
storeDeleteUserSessions(S, userId, ok) ==
    IF ok THEN LET kept == {t \in DOMAIN S : S[t].userId # userId}
               IN  [store |-> [t \in kept |-> S[t]],
                    ret |-> Cardinality((DOMAIN S) \ kept)]
          ELSE [store |-> S, ret |-> 0]

----------------------------------------------------------------------------
(* AuthService *)

\* mutant: the session lives for the refresh threshold only
newExpiry_refreshThreshold(t) == t + SESSION_REFRESH_THRESHOLD

\* new Date(Date.now() + SESSION_DURATION)
newExpiry(t) == t + SESSION_DURATION

\* mutant: the comparison is the wrong way round
needsRefresh_flipped(session, t) == session.expiresAt - t > SESSION_REFRESH_THRESHOLD

\* timeUntilExpiry < SESSION_REFRESH_THRESHOLD
needsRefresh(session, t) == session.expiresAt - t < SESSION_REFRESH_THRESHOLD

createSession(S, sessionId, userId, username, t, ok) ==
    LET r == storeSet(S, sessionId,
                      [userId |-> userId, username |-> username,
                       expiresAt |-> newExpiry(t)], ok)
    IN  [store |-> r.store, threw |-> r.threw,
         ret |-> IF r.threw THEN None ELSE Some(sessionId)]

\* mutant: the refresh forgets to add SESSION_DURATION
getSession_refreshToNow(S, sessionId, t, selOk, delOk, setOk) ==
    LET g == storeGet(S, sessionId, t, selOk, delOk)
    IN  IF g.ret = None THEN [store |-> g.store, ret |-> None, threw |-> FALSE]
        ELSE IF needsRefresh(The(g.ret), t)
             THEN LET session == [The(g.ret) EXCEPT !.expiresAt = t]
                      w == storeSet(g.store, sessionId, session, setOk)
                  IN  [store |-> w.store, threw |-> w.threw,
                       ret |-> IF w.threw THEN None ELSE Some(session)]
        ELSE [store |-> g.store, ret |-> g.ret, threw |-> FALSE]

getSession(S, sessionId, t, selOk, delOk, setOk) ==
    LET g == storeGet(S, sessionId, t, selOk, delOk)
    IN  IF g.ret = None THEN [store |-> g.store, ret |-> None, threw |-> FALSE]
        ELSE IF needsRefresh(The(g.ret), t)
             THEN LET session == [The(g.ret) EXCEPT !.expiresAt = newExpiry(t)]
                      w == storeSet(g.store, sessionId, session, setOk)
                  IN  [store |-> w.store, threw |-> w.threw,
                       ret |-> IF w.threw THEN None ELSE Some(session)]
        ELSE [store |-> g.store, ret |-> g.ret, threw |-> FALSE]

deleteSession(S, sessionId, ok) ==
    [store |-> storeDelete(S, sessionId, ok).store,
     threw |-> storeDelete(S, sessionId, ok).threw]

\* login: every exception inside the try block is logged and turned into null
login(S, credentials, sessionId, t, userOk, setOk) ==
    IF ~userOk THEN [store |-> S, ret |-> None, threw |-> FALSE]
    ELSE IF getUserByUsername(credentials.username) = None
         THEN [store |-> S, ret |-> None, threw |-> FALSE]
    ELSE LET user == The(getUserByUsername(credentials.username))
         IN  IF ~verifyPassword(credentials.password, user.password)
             THEN [store |-> S, ret |-> None, threw |-> FALSE]
             ELSE LET c == createSession(S, sessionId, user.id, user.username, t, setOk)
                  IN  IF c.threw
                      THEN [store |-> c.store, ret |-> None, threw |-> FALSE]
                      ELSE [store |-> c.store, threw |-> FALSE,
                            ret |-> Some([user |-> userWithoutPassword(user),
                                          sessionId |-> sessionId])]

----------------------------------------------------------------------------
(* POST /api/auth/login: 400 when the body fails validation (or anything   *)
(* else throws), 401 when login returns null, 200 with the session cookie  *)
(* otherwise                                                               *)

postLogin(S, body, sessionId, t, userOk, setOk) ==
    IF ~validLogin(body)
    THEN [store |-> S, ret |-> None, threw |-> FALSE, status |-> 400, cookie |-> None]
    ELSE LET r == login(S, body, sessionId, t, userOk, setOk)
         IN  IF r.threw
             THEN [store |-> r.store, ret |-> None, threw |-> TRUE,
                   status |-> 400, cookie |-> None]
             ELSE IF r.ret = None
             THEN [store |-> r.store, ret |-> None, threw |-> FALSE,
                   status |-> 401, cookie |-> None]
             ELSE [store |-> r.store, ret |-> r.ret, threw |-> FALSE,
                   status |-> 200, cookie |-> Some(The(r.ret).sessionId)]

----------------------------------------------------------------------------
(* The call that completed at the current clock reading, kept to state the *)
(* claims: the operation, its session id and arguments, the row its        *)
(* session id had when it started, its result (a record, if any), whether  *)
(* it threw, whether every statement it sent to the database was executed, *)
(* and the HTTP status (0 outside a route).  It is forgotten when the      *)
(* clock moves on.                                                         *)

NoToken == ""

Call(op, tok, arg, ret, threw, dbOk, status) ==
    [op |-> op, tok |-> tok, arg |-> arg, pre |-> dbSelect(sessions, tok),
     ret |-> ret, threw |-> threw, dbOk |-> dbOk, status |-> status]

NoCall == [op |-> "none", tok |-> NoToken, arg |-> None, pre |-> None,
           ret |-> None, threw |-> FALSE, dbOk |-> TRUE, status |-> 0]

EmptyStore == [t \in {} |-> 0]

\* no collection, ownership row, photo or uploaded file yet
EmptyDb ==
    [collections |-> [c \in {} |-> 0], collectionsSeq |-> 0,
     collectionOwners |-> {},
     photos |-> [p \in {} |-> 0], photosSeq |-> 0,
     files |-> {}]

\* no call of withDatabaseRetry in progress
NoRetry ==
    [pc |-> "idle", maxRetries |-> 0, attempt |-> 0, outcomes |-> << >>,
     delays |-> << >>, lastError |-> None, result |-> None]

Init ==
    /\ now = 0
    /\ sessions = EmptyStore
    /\ last = NoCall
    /\ pc = [p \in Procs |-> "idle"]
    /\ loc = [p \in Procs |-> [tok |-> NoToken, session |-> None]]
    /\ db = EmptyDb
    /\ rt = NoRetry
    /\ sweeps = << >>

\* the clock moves on to a later instant
Advance ==
    /\ \E t \in Instants : t > now /\ now' = t
    /\ last' = NoCall
    /\ UNCHANGED <<sessions, pc, loc, db, rt, sweeps>>

\* AuthService.createSession(userId, username); generateSessionId may yield
\* any id, a fresh one or (Math.random() colliding) one already stored
CreateSession ==
    \E sessionId \in Tokens, u \in users, ok \in BOOLEAN :
        LET r == createSession(sessions, sessionId, u.id, u.username, now, ok)
        IN  /\ sessions' = r.store
            /\ last' = Call("createSession", sessionId,
                            Some([userId |-> u.id, username |-> u.username]),
                            IF r.ret = None THEN None
                            ELSE Some([sessionId |-> The(r.ret)]),
                            r.threw, ok, 0)
            /\ UNCHANGED <<now, pc, loc, db, rt, sweeps>>

\* statements getSession sends for this table and clock reading
getDeletes(S, id, t) == dbSelect(S, id) # None /\ isExpired(The(dbSelect(S, id)), t)

getRefreshes(S, id, t) ==
    /\ dbSelect(S, id) # None
    /\ ~isExpired(The(dbSelect(S, id)), t)
    /\ needsRefresh(The(dbSelect(S, id)), t)

\* AuthService.getSession(sessionId), run to completion
GetSession ==
    \E sessionId \in Tokens, selOk, delOk, setOk \in BOOLEAN :
        LET r == getSession(sessions, sessionId, now, selOk, delOk, setOk)
            dbOk == /\ selOk
                    /\ getDeletes(sessions, sessionId, now) => delOk
                    /\ getRefreshes(sessions, sessionId, now) => setOk
        IN  /\ sessions' = r.store
            /\ last' = Call("getSession", sessionId, None, r.ret, r.threw, dbOk, 0)
            /\ UNCHANGED <<now, pc, loc, db, rt, sweeps>>

\* AuthService.deleteSession(sessionId)
DeleteSession ==
    \E sessionId \in Tokens, ok \in BOOLEAN :
        LET r == deleteSession(sessions, sessionId, ok)
        IN  /\ sessions' = r.store
            /\ last' = Call("deleteSession", sessionId, None, None, r.threw, ok, 0)
            /\ UNCHANGED <<now, pc, loc, db, rt, sweeps>>

\* AuthService.cleanExpiredSessions(), fired by the hourly timers
CleanExpiredSessions ==
    \E ok \in BOOLEAN :
        LET r == storeCleanExpiredSessions(sessions, now, ok)
        IN  /\ sessions' = r.store
            /\ last' = Call("cleanExpiredSessions", NoToken, None,
                            Some([rowCount |-> r.ret]), FALSE, ok, 0)
            /\ UNCHANGED <<now, pc, loc, db, rt, sweeps>>

\* POST /api/auth/login with a request body
PostLogin ==
    \E username \in LoginUsernames, password \in LoginPasswords,
       sessionId \in Tokens, userOk, setOk \in BOOLEAN :
        LET body == [username |-> username, password |-> password]
            r == postLogin(sessions, body, sessionId, now, userOk, setOk)
            found == getUserByUsername(username)
            sets == /\ validLogin(body) /\ userOk /\ found # None
                    /\ verifyPassword(password, The(found).password)
            dbOk == /\ validLogin(body) => userOk
                    /\ sets => setOk
        IN  /\ sessions' = r.store
            /\ last' = Call("login", IF sets THEN sessionId ELSE NoToken,
                            Some(body), r.ret, r.threw, dbOk, r.status)
            /\ UNCHANGED <<now, pc, loc, db, rt, sweeps>>

Next ==
    \/ Advance
    \/ CreateSession
    \/ GetSession
    \/ DeleteSession
    \/ CleanExpiredSessions
    \/ PostLogin

Spec == Init /\ [][Next]_vars

----------------------------------------------------------------------------
(* Interleaved requests.  getSession awaits the database between its       *)
(* statements, so other requests, the sweep and the clock run between the  *)
(* select of DatabaseSessionStore.get, the work on its result, and the     *)
(* delete or upsert that follows.  createSession, deleteSession and the    *)
(* sweep send a single statement each.                                     *)

\* the session id the interleaved requests contend for, and its owner
ConcTokens == {"s1"}
ConcUsers == {u \in users : u.id = 1}

Idle == [tok |-> NoToken, session |-> None]

Step(op, tok) == [NoCall EXCEPT !.op = op, !.tok = tok]

\* DatabaseSessionStore.get: the select is executed (or fails, which get
\* reports as undefined)
GetSelect(p) ==
    /\ pc[p] = "idle"
    /\ \E sessionId \in ConcTokens, ok \in BOOLEAN :
          /\ loc' = [loc EXCEPT ![p] =
                        [tok |-> sessionId,
                         session |-> IF ok THEN dbSelect(sessions, sessionId) ELSE None]]
          /\ last' = Step("get.select", sessionId)
    /\ pc' = [pc EXCEPT ![p] = "selected"]
    /\ UNCHANGED <<now, sessions, db, rt, sweeps>>

\* the select has answered: get checks expiry against the clock, and
\* getSession decides on the refresh
GetCheck(p) ==
    /\ pc[p] = "selected"
    /\ last' = Step("get.check", loc[p].tok)
    /\ IF loc[p].session = None
       THEN /\ pc' = [pc EXCEPT ![p] = "idle"]
            /\ loc' = [loc EXCEPT ![p] = Idle]
       ELSE IF isExpired(The(loc[p].session), now)
       THEN /\ pc' = [pc EXCEPT ![p] = "deleting"]
            /\ loc' = [loc EXCEPT ![p].session = None]
       ELSE IF needsRefresh(The(loc[p].session), now)
       THEN /\ pc' = [pc EXCEPT ![p] = "refreshing"]
            /\ loc' = [loc EXCEPT ![p].session =
                          Some([The(loc[p].session) EXCEPT !.expiresAt = newExpiry(now)])]
       ELSE /\ pc' = [pc EXCEPT ![p] = "idle"]
            /\ loc' = [loc EXCEPT ![p] = Idle]
    /\ UNCHANGED <<now, sessions, db, rt, sweeps>>

\* the delete of the expired row is executed (or fails and is swallowed);
\* get returns undefined
GetDelete(p) ==
    /\ pc[p] = "deleting"
    /\ \E ok \in BOOLEAN : sessions' = storeDelete(sessions, loc[p].tok, ok).store
    /\ last' = Step("get.delete", loc[p].tok)
    /\ pc' = [pc EXCEPT ![p] = "idle"]
    /\ loc' = [loc EXCEPT ![p] = Idle]
    /\ UNCHANGED <<now, db, rt, sweeps>>

\* the refresh upsert is executed (or fails and getSession throws)
GetRefresh(p) ==
    /\ pc[p] = "refreshing"
    /\ \E ok \in BOOLEAN :
          sessions' = storeSet(sessions, loc[p].tok, The(loc[p].session), ok).store
    /\ last' = Step("get.refresh", loc[p].tok)
    /\ pc' = [pc EXCEPT ![p] = "idle"]
    /\ loc' = [loc EXCEPT ![p] = Idle]
    /\ UNCHANGED <<now, db, rt, sweeps>>

\* createSession: one upsert
ConcCreateSession ==
    /\ \E sessionId \in ConcTokens, u \in ConcUsers, ok \in BOOLEAN :
          /\ sessions' = createSession(sessions, sessionId, u.id, u.username, now, ok).store
          /\ last' = Step("createSession", sessionId)
    /\ UNCHANGED <<now, pc, loc, db, rt, sweeps>>

\* deleteSession (logout): one delete
ConcDeleteSession ==
    /\ \E sessionId \in ConcTokens, ok \in BOOLEAN :
          /\ sessions' = deleteSession(sessions, sessionId, ok).store
          /\ last' = Step("deleteSession", sessionId)
    /\ UNCHANGED <<now, pc, loc, db, rt, sweeps>>

\* the hourly sweep: one delete
ConcCleanExpiredSessions ==
    /\ \E ok \in BOOLEAN : sessions' = storeCleanExpiredSessions(sessions, now, ok).store
    /\ last' = Step("cleanExpiredSessions", NoToken)
    /\ UNCHANGED <<now, pc, loc, db, rt, sweeps>>

NextConc ==
    \/ Advance
    \/ ConcCreateSession
    \/ ConcDeleteSession
    \/ ConcCleanExpiredSessions
    \/ \E p \in Procs : GetSelect(p)
    \/ \E p \in Procs : GetCheck(p)
    \/ \E p \in Procs : GetDelete(p)
    \/ \E p \in Procs : GetRefresh(p)

SpecConc == Init /\ [][NextConc]_vars

\* createSession under a token that is not stored
FreshCreateSession ==
    /\ \A t \in ConcTokens : t \notin DOMAIN sessions
    /\ ConcCreateSession

\* getSession calls of several requests on one session, nothing else
NextRefresh ==
    \/ Advance
    \/ FreshCreateSession
    \/ \E p \in Procs : GetSelect(p)
    \/ \E p \in Procs : GetCheck(p)
    \/ \E p \in Procs : GetDelete(p)
    \/ \E p \in Procs : GetRefresh(p)

SpecRefresh == Init /\ [][NextRefresh]_vars

----------------------------------------------------------------------------
(* The authentication middleware.  A request carries an Authorization      *)
(* header and a sessionId cookie, each of which may be absent.  The header *)
(* value is a string, kept as the sequence of its pieces so that           *)
(* replace('Bearer ', '') can be computed; the HTTP parser has trimmed it, *)
(* so it never ends in a blank, but it may be the empty string.            *)

Bearer == "Bearer "

Authorizations ==
    {None, Some(<< >>), Some(<<Bearer, "s1">>), Some(<<Bearer, "s2">>),
     Some(<<"Basic ", "s1">>)}

Cookies == {None, Some("s1"), Some("s2")}

\* what storage.getUser finds for the session's userId: the users row, no
\* row (the account was removed), or a failing query
Accounts == {"found", "missing", "error"}

RECURSIVE Join(_)
Join(h) == IF h = << >> THEN "" ELSE Head(h) \o Join(Tail(h))

\* String.prototype.replace('Bearer ', ''): the first occurrence is removed
RECURSIVE replaceBearer(_)
replaceBearer(h) ==
    IF h = << >> THEN << >>
    ELSE IF Head(h) = Bearer THEN Tail(h)
    ELSE <<Head(h)>> \o replaceBearer(Tail(h))

\* a cookie token in place of the header token
extractToken_cookieFirst(authorization, cookie) ==
    IF cookie # None THEN cookie
    ELSE IF authorization = None THEN None
    ELSE Some(Join(replaceBearer(The(authorization))))

\* req.headers.authorization?.replace('Bearer ', '') || req.cookies?.sessionId
extractToken(authorization, cookie) ==
    LET h == IF authorization = None THEN None
             ELSE Some(Join(replaceBearer(The(authorization))))
    IN  IF h # None /\ The(h) # "" THEN h ELSE cookie

\* !sessionId
noToken(sessionId) == sessionId = None \/ The(sessionId) = ""

\* storage.getUser(session.userId) for an account in the given condition
storageGetUser(id, account) == IF account = "missing" THEN None ELSE getUser(id)

\* what a middleware did with a request: the response it sent (status 0 and
\* an empty message when it sent none), how often it called next, and what
\* it attached to the request
Outcome(S, status, message, next, sessionId, user, threw) ==
    [store |-> S, status |-> status, message |-> message, next |-> next,
     sessionId |-> sessionId, user |-> user, threw |-> threw]

\* mutant: the request is passed on after 'User not found' was answered
requireAuth_answersAndPassesOn(S, req, t, selOk, delOk, setOk, account) ==
    LET sessionId == extractToken(req.authorization, req.cookie)
    IN  IF noToken(sessionId)
        THEN Outcome(S, 401, "Authentication required", 0, None, None, FALSE)
        ELSE LET g == getSession(S, The(sessionId), t, selOk, delOk, setOk)
             IN  IF g.threw
                 THEN Outcome(g.store, 500, "Authentication error", 0, None, None, TRUE)
                 ELSE IF g.ret = None
                 THEN Outcome(g.store, 401, "Invalid or expired session", 0,
                              None, None, FALSE)
                 ELSE IF account = "error"
                 THEN Outcome(g.store, 500, "Authentication error", 0,
                              sessionId, None, FALSE)
                 ELSE LET user == storageGetUser(The(g.ret).userId, account)
                      IN  IF user # None
                          THEN Outcome(g.store, 0, "", 1, sessionId,
                                       Some(userWithoutPassword(The(user))), FALSE)
                          ELSE Outcome(g.store, 401, "User not found", 1,
                                       sessionId, None, FALSE)

\* requireAuth; threw tells that getSession rejected and the outer catch ran
requireAuth(S, req, t, selOk, delOk, setOk, account) ==
    LET sessionId == extractToken(req.authorization, req.cookie)
    IN  IF noToken(sessionId)
        THEN Outcome(S, 401, "Authentication required", 0, None, None, FALSE)
        ELSE LET g == getSession(S, The(sessionId), t, selOk, delOk, setOk)
             IN  IF g.threw
                 THEN Outcome(g.store, 500, "Authentication error", 0, None, None, TRUE)
                 ELSE IF g.ret = None
                 THEN Outcome(g.store, 401, "Invalid or expired session", 0,
                              None, None, FALSE)
                 ELSE IF account = "error"
                 THEN Outcome(g.store, 500, "Authentication error", 0,
                              sessionId, None, FALSE)
                 ELSE LET user == storageGetUser(The(g.ret).userId, account)
                      IN  IF user # None
                          THEN Outcome(g.store, 0, "", 1, sessionId,
                                       Some(userWithoutPassword(The(user))), FALSE)
                          ELSE Outcome(g.store, 401, "User not found", 0,
                                       sessionId, None, FALSE)

\* optionalAuth: next() on every path, both catch handlers included
optionalAuth(S, req, t, selOk, delOk, setOk, account) ==
    LET sessionId == extractToken(req.authorization, req.cookie)
    IN  IF noToken(sessionId)
        THEN Outcome(S, 0, "", 1, None, None, FALSE)
        ELSE LET g == getSession(S, The(sessionId), t, selOk, delOk, setOk)
             IN  IF g.threw
                 THEN Outcome(g.store, 0, "", 1, None, None, TRUE)
                 ELSE IF g.ret = None
                 THEN Outcome(g.store, 0, "", 1, None, None, FALSE)
                 ELSE IF account = "error"
                 THEN Outcome(g.store, 0, "", 1, sessionId, None, FALSE)
                 ELSE LET user == storageGetUser(The(g.ret).userId, account)
                      IN  IF user # None
                          THEN Outcome(g.store, 0, "", 1, sessionId,
                                       Some(userWithoutPassword(The(user))), FALSE)
                          ELSE Outcome(g.store, 0, "", 1, sessionId, None, FALSE)

\* the session id a request presents, NoToken when it presents none
tokenOf(req) ==
    IF noToken(extractToken(req.authorization, req.cookie)) THEN NoToken
    ELSE The(extractToken(req.authorization, req.cookie))

\* every statement getSession sent for the request was executed
lookupOk(S, req, t, selOk, delOk, setOk) ==
    tokenOf(req) # NoToken =>
        /\ selOk
        /\ getDeletes(S, tokenOf(req), t) => delOk
        /\ getRefreshes(S, tokenOf(req), t) => setOk

Handled(op, req, account, r, dbOk) ==
    Call(op, tokenOf(req),
         Some([authorization |-> req.authorization, cookie |-> req.cookie,
               account |-> account]),
         Some([message |-> r.message, next |-> r.next,
               sessionId |-> r.sessionId, user |-> r.user]),
         r.threw, dbOk, r.status)

\* the statement of getSession that the database fails to execute, if any:
\* a lookup sends the select and then at most one of the lazy delete and
\* the refresh upsert, and a failed select ends it
Faults == {"none", "select", "delete", "set"}

\* a request passes through requireAuth; the account is looked up only
\* when a session was resolved
RequireAuth ==
    \E authorization \in Authorizations, cookie \in Cookies,
       account \in Accounts, fault \in Faults :
        LET req == [authorization |-> authorization, cookie |-> cookie]
            selOk == fault # "select"
            delOk == fault # "delete"
            setOk == fault # "set"
            r == requireAuth(sessions, req, now, selOk, delOk, setOk, account)
        IN  /\ r.sessionId = None => account = "found"
            /\ sessions' = r.store
            /\ last' = Handled("requireAuth", req, account, r,
                               lookupOk(sessions, req, now, selOk, delOk, setOk))
            /\ UNCHANGED <<now, pc, loc, db, rt, sweeps>>

\* a request passes through optionalAuth
OptionalAuth ==
    \E authorization \in Authorizations, cookie \in Cookies,
       account \in Accounts, fault \in Faults :
        LET req == [authorization |-> authorization, cookie |-> cookie]
            selOk == fault # "select"
            delOk == fault # "delete"
            setOk == fault # "set"
            r == optionalAuth(sessions, req, now, selOk, delOk, setOk, account)
        IN  /\ r.sessionId = None => account = "found"
            /\ sessions' = r.store
            /\ last' = Handled("optionalAuth", req, account, r,
                               lookupOk(sessions, req, now, selOk, delOk, setOk))
            /\ UNCHANGED <<now, pc, loc, db, rt, sweeps>>

\* sessions are created under one session id and for the first account;
\* the other session id stays unknown to the store
AuthCreateSession ==
    /\ \E sessionId \in ConcTokens, u \in ConcUsers, ok \in BOOLEAN :
          /\ sessions' = createSession(sessions, sessionId, u.id, u.username, now, ok).store
          /\ last' = Step("createSession", sessionId)
    /\ UNCHANGED <<now, pc, loc, db, rt, sweeps>>

NextAuth ==
    \/ Advance
    \/ AuthCreateSession
    \/ RequireAuth
    \/ OptionalAuth

SpecAuth == Init /\ [][NextAuth]_vars

----------------------------------------------------------------------------
(* Claims about the session store, one call at a time *)

Live(row) == now < row.expiresAt

Row(userId, username, expiresAt) ==
    [userId |-> userId, username |-> username, expiresAt |-> expiresAt]

\* C1: getSession never returns an expired session: a non-null result
\* implies that now < the expiresAt stored for the token when it was looked
\* up; a row with expiresAt <= now, expiresAt = now included, is not returned
C1_NeverReturnsExpired ==
    (last.op = "getSession" /\ last.ret # None)
        => (last.pre # None /\ now < The(last.pre).expiresAt)

\* C2: once now >= expiresAt, getSession(token) returns null, the lookup
\* removes the row, and every later getSession(token) returns null as well
C2_ExpiredStaysGone ==
    (last.op = "getSession" /\ last.dbOk /\ last.pre # None
        /\ now >= The(last.pre).expiresAt)
        => /\ last.ret = None
           /\ last.tok \notin DOMAIN sessions
           /\ \A t \in Instants : t >= now =>
                 getSession(sessions, last.tok, t, TRUE, TRUE, TRUE).ret = None

\* C4: getSession(createSession(userId, username)) called immediately
\* afterwards returns the row with that userId and username and with
\* expiresAt = creation time + SESSION_DURATION (and changes nothing)
C4_GetAfterCreate ==
    (last.op = "createSession" /\ ~last.threw)
        => /\ last.ret = Some([sessionId |-> last.tok])
           /\ getSession(sessions, The(last.ret).sessionId, now, TRUE, TRUE, TRUE)
                = [store |-> sessions, threw |-> FALSE,
                   ret |-> Some(Row(The(last.arg).userId, The(last.arg).username,
                                    now + SESSION_DURATION))]

C4_Witness ==
    /\ last.op = "createSession" /\ ~last.threw
    /\ last.tok \in DOMAIN sessions
    /\ now > 0

\* C5: when getSession finds a live session with expiresAt - now <
\* SESSION_REFRESH_THRESHOLD it stores expiresAt = now + SESSION_DURATION and
\* returns the refreshed row; a session read at 6d+1h after its creation
\* therefore still resolves at 7d+1s
C5_SlidingExpiration ==
    /\ (last.op = "getSession" /\ last.dbOk /\ last.pre # None
           /\ Live(The(last.pre))
           /\ The(last.pre).expiresAt - now < SESSION_REFRESH_THRESHOLD)
        => /\ last.tok \in DOMAIN sessions
           /\ sessions[last.tok] =
                 [The(last.pre) EXCEPT !.expiresAt = now + SESSION_DURATION]
           /\ last.ret = Some(sessions[last.tok])
    /\ (last.op = "getSession" /\ last.dbOk /\ last.pre # None
           /\ now = 7 * DAY + SECOND
           /\ The(last.pre).expiresAt = (6 * DAY + HOUR) + SESSION_DURATION)
        => last.ret = last.pre

\* the refresh of the scenario: read at 6d+1h, 23h before expiry
C5_Witness ==
    /\ last.op = "getSession" /\ last.dbOk
    /\ now = 6 * DAY + HOUR
    /\ last.pre # None /\ The(last.pre).expiresAt = SESSION_DURATION
    /\ last.ret # None /\ The(last.ret).expiresAt = now + SESSION_DURATION

\* the end of the scenario: resolved at 7d+1s thanks to the refresh at 6d+1h
C5_ScenarioWitness ==
    /\ last.op = "getSession" /\ last.dbOk
    /\ now = 7 * DAY + SECOND
    /\ last.pre = Some(Row(1, "karold", (6 * DAY + HOUR) + SESSION_DURATION))
    /\ last.ret = last.pre

\* C6: no getSession stores an expiresAt smaller than the value it replaced
C6_ExpiryMonotonic ==
    (last.op = "getSession" /\ last.pre # None /\ last.tok \in DOMAIN sessions)
        => sessions[last.tok].expiresAt >= The(last.pre).expiresAt

C6_Witness ==
    /\ last.op = "getSession" /\ last.pre # None /\ last.tok \in DOMAIN sessions
    /\ sessions[last.tok].expiresAt > The(last.pre).expiresAt

\* C7: deleteSession never raises an error, whether the token is stored, was
\* deleted before or was never created, and whether or not the database
\* executes the statement; an executed delete removes the token's row and
\* nothing else, a delete of an absent token changes nothing, and a second
\* delete leaves the table as the first one left it
C7_DeleteIdempotent ==
    [][last'.op = "deleteSession" =>
        /\ ~last'.threw
        /\ last'.dbOk =>
              sessions' = [t \in (DOMAIN sessions) \ {last'.tok} |-> sessions[t]]
        /\ last'.tok \notin DOMAIN sessions => sessions' = sessions
        /\ last'.dbOk =>
              \A ok \in BOOLEAN :
                 deleteSession(sessions', last'.tok, ok)
                    = [store |-> sessions', threw |-> FALSE]]_vars

\* a delete of a token that is not stored, next to a session that is
C7_Witness ==
    /\ last.op = "deleteSession" /\ last.dbOk
    /\ last.pre = None
    /\ sessions # EmptyStore

\* C8: cleanExpiredSessions removes exactly the rows with expiresAt <= now
\* (expiresAt = now included) and leaves every other row unchanged
C8_SweepExact ==
    [][(last'.op = "cleanExpiredSessions" /\ last'.dbOk) =>
        sessions' = [t \in {x \in DOMAIN sessions : sessions[x].expiresAt > now}
                       |-> sessions[t]]]_vars

GoodCredentials(body) ==
    \E u \in users : u.username = body.username
                     /\ u.password = <<"bcrypt", body.password>>

BadCredentials(body) ==
    /\ body.username # "" /\ body.password # ""
    /\ ~GoodCredentials(body)

\* C9: login returns null, without throwing and without creating a session,
\* when the username is unknown or the password does not verify; with
\* correct credentials it returns a sessionId of a newly stored session and
\* a user object that has no password field
C9_Login ==
    [][last'.op = "login" =>
        /\ ~last'.threw
        /\ BadCredentials(The(last'.arg)) =>
              /\ last'.ret = None
              /\ last'.status = 401
              /\ sessions' = sessions
        /\ (GoodCredentials(The(last'.arg)) /\ last'.dbOk) =>
              /\ last'.ret # None
              /\ last'.status = 200
              /\ The(last'.ret).sessionId \in DOMAIN sessions'
              /\ \E u \in users :
                    /\ u.username = The(last'.arg).username
                    /\ sessions'[The(last'.ret).sessionId]
                          = Row(u.id, u.username, now + SESSION_DURATION)
                    /\ The(last'.ret).user.id = u.id
                    /\ The(last'.ret).user.username = u.username
              /\ "password" \notin DOMAIN The(last'.ret).user]_vars

C9_Witness ==
    /\ last.op = "login" /\ last.ret # None
    /\ The(last.ret).sessionId \in DOMAIN sessions

\* C10: when storing the session fails during login, the failure leaves
\* login as an error distinct from the bad-credentials outcome, and login
\* never reports success for a session that was not stored
C10_StoreFailurePropagates ==
    /\ (last.op = "login" /\ last.tok # NoToken /\ ~last.dbOk)
          => (last.threw /\ last.status # 401 /\ last.status # 200)
    /\ (last.op = "login" /\ last.status = 200)
          => (last.ret # None /\ The(last.ret).sessionId \in DOMAIN sessions)

----------------------------------------------------------------------------
(* POST /api/auth/logout.  The handler runs behind requireAuth, calls      *)
(* AuthService.logout(req.sessionId) without awaiting it, clears the       *)
(* cookie and answers 200; the delete that logout started is executed by   *)
(* the database later, and its failure is swallowed by the store.          *)

\* the response of the route, and in pending the session id whose delete
\* was started and not awaited
postLogout(S, req, t, selOk, delOk, setOk, account) ==
    LET a == requireAuth(S, req, t, selOk, delOk, setOk, account)
    IN  IF a.next = 0
        THEN [out |-> a, pending |-> None, clearCookie |-> FALSE]
        ELSE [out |-> [a EXCEPT !.status = 200,
                                !.message = "Logged out successfully"],
              pending |-> a.sessionId, clearCookie |-> TRUE]

\* a logout request is answered
PostLogout(p) ==
    /\ pc[p] = "idle"
    /\ \E authorization \in Authorizations, cookie \in Cookies,
          account \in Accounts, fault \in Faults :
          LET req == [authorization |-> authorization, cookie |-> cookie]
              selOk == fault # "select"
              delOk == fault # "delete"
              setOk == fault # "set"
              r == postLogout(sessions, req, now, selOk, delOk, setOk, account)
          IN  /\ r.out.sessionId = None => account = "found"
              /\ sessions' = r.out.store
              /\ last' = Handled("logout", req, account, r.out,
                                 lookupOk(sessions, req, now, selOk, delOk, setOk))
              /\ IF r.pending = None
                 THEN UNCHANGED <<pc, loc, sweeps>>
                 ELSE /\ pc' = [pc EXCEPT ![p] = "logout"]
                      /\ loc' = [loc EXCEPT ![p] =
                                    [tok |-> The(r.pending), session |-> None]]
    /\ UNCHANGED <<now, db, rt, sweeps>>

\* the delete started by AuthService.logout is executed (or fails and is
\* swallowed by DatabaseSessionStore.delete)
LogoutDelete(p) ==
    /\ pc[p] = "logout"
    /\ \E ok \in BOOLEAN : sessions' = deleteSession(sessions, loc[p].tok, ok).store
    /\ last' = Step("logout.delete", loc[p].tok)
    /\ pc' = [pc EXCEPT ![p] = "idle"]
    /\ loc' = [loc EXCEPT ![p] = Idle]
    /\ UNCHANGED <<now, db, rt, sweeps>>

NextLogout ==
    \/ Advance
    \/ AuthCreateSession
    \/ \E p \in Procs : PostLogout(p)
    \/ \E p \in Procs : LogoutDelete(p)

SpecLogout == Init /\ [][NextLogout]_vars

----------------------------------------------------------------------------
(* withDatabaseRetry(operation, maxRetries), one step per invocation of    *)
(* the operation and per timer.  An invocation of the operation resolves   *)
(* with a value or rejects with what it threw: an Error or some other      *)
(* value, with a message kept as the sequence of its words.  The n-th      *)
(* invocation's result carries n, so that results are told apart.          *)

\* largest maxRetries a call is started with
MaxRetries == 5

Value(n) == [kind |-> "value", message |-> << >>, n |-> n]

Results(n) ==
    {Value(n),
     [kind |-> "Error", message |-> <<"connect", "ETIMEDOUT">>, n |-> n],
     [kind |-> "Error", message |-> <<"read", "ECONNRESET">>, n |-> n],
     [kind |-> "Error", message |-> <<"duplicate", "key">>, n |-> n],
     [kind |-> "object", message |-> <<"ETIMEDOUT">>, n |-> n]}

\* the value of `lastError` before any assignment
Undefined == [kind |-> "undefined", message |-> << >>, n |-> 0]

\* error.message.includes(word)
includes(message, word) == \E i \in DOMAIN message : message[i] = word

\* every failure is retried
isTransient_always(error) == TRUE

\* error instanceof Error && (message.includes('ETIMEDOUT') ||
\*                            message.includes('ECONNRESET'))
isTransient(error) ==
    /\ error.kind = "Error"
    /\ includes(error.message, "ETIMEDOUT") \/ includes(error.message, "ECONNRESET")

Min(a, b) == IF a < b THEN a ELSE b

\* the exponent is one too high
retryDelay_doubled(attempt) == Min(1000 * 2 ^ attempt, 5000)

\* Math.min(1000 * Math.pow(2, attempt - 1), 5000)
retryDelay(attempt) == Min(1000 * 2 ^ (attempt - 1), 5000)

\* the last retry is not made
mayRetry_stopsEarly(attempt, maxRetries) == attempt < maxRetries - 1

\* if (attempt < maxRetries)
mayRetry(attempt, maxRetries) == attempt < maxRetries

\* attempt <= maxRetries, the condition of the for loop
inLoop(attempt, maxRetries) == attempt <= maxRetries

\* the loop is entered with attempt = 1, or left at once: throw lastError!
RetryStart ==
    /\ rt.pc = "idle"
    /\ \E maxRetries \in 0..MaxRetries :
          rt' = IF inLoop(1, maxRetries)
                THEN [NoRetry EXCEPT !.pc = "calling", !.maxRetries = maxRetries,
                                     !.attempt = 1]
                ELSE [NoRetry EXCEPT !.pc = "threw", !.maxRetries = maxRetries,
                                     !.attempt = 1, !.result = Some(Undefined)]
    /\ UNCHANGED <<now, sessions, last, pc, loc, db, sweeps>>

\* await operation(): its value is returned; a transient error with
\* attempts left starts the timer; any other error is thrown again
RetryCall ==
    /\ rt.pc = "calling"
    /\ \E r \in Results(Len(rt.outcomes) + 1) :
          rt' = IF r.kind = "value"
                THEN [rt EXCEPT !.pc = "returned", !.result = Some(r),
                                !.outcomes = Append(@, r)]
                ELSE IF isTransient(r) /\ mayRetry(rt.attempt, rt.maxRetries)
                THEN [rt EXCEPT !.pc = "waiting", !.lastError = Some(r),
                                !.outcomes = Append(@, r),
                                !.delays = Append(@, retryDelay(rt.attempt))]
                ELSE [rt EXCEPT !.pc = "threw", !.lastError = Some(r),
                                !.result = Some(r), !.outcomes = Append(@, r)]
    /\ UNCHANGED <<now, sessions, last, pc, loc, db, sweeps>>

\* the timer fires: continue, attempt++, and the loop condition again
RetryWake ==
    /\ rt.pc = "waiting"
    /\ rt' = IF inLoop(rt.attempt + 1, rt.maxRetries)
             THEN [rt EXCEPT !.pc = "calling", !.attempt = @ + 1]
             ELSE [rt EXCEPT !.pc = "threw", !.attempt = @ + 1,
                             !.result = rt.lastError]
    /\ UNCHANGED <<now, sessions, last, pc, loc, db, sweeps>>

NextRetry ==
    \/ RetryStart
    \/ RetryCall
    \/ RetryWake

SpecRetry == Init /\ [][NextRetry]_vars

\* the promise of every invocation settles and every timer fires
SpecRetryFair == SpecRetry /\ WF_vars(NextRetry)

----------------------------------------------------------------------------
(* Collections, their ownership rows and their photos (DbStorage).  The    *)
(* tables are functions from serial ids to rows, collection_owners is the  *)
(* set of its (collectionId, userId) rows, files is the uploads directory. *)
(* The .metadata.json file written and removed next to each photo file is  *)
(* never read by the server and is left out.                               *)

\* last serial id handed out by the collections table
MaxCollections == 1

\* serial ids handed out by the photos table
PhotoIds == {1}

CollectionTypes == {"nature", "travels", "favorites", "custom"}

\* SELECT ... FROM collections WHERE id = $1, first row
getCollection(D, id) ==
    IF id \in DOMAIN D.collections THEN Some(D.collections[id]) ELSE None

\* any ownership row of the collection counts
checkCollectionOwnership_anyOwner(D, collectionId, userId) ==
    \E o \in D.collectionOwners : o.collectionId = collectionId

\* SELECT ... FROM collection_owners WHERE collection_id = $1 AND
\* user_id = $2 LIMIT 1; ownership.length > 0
checkCollectionOwnership(D, collectionId, userId) ==
    \E o \in D.collectionOwners :
        o.collectionId = collectionId /\ o.userId = userId

\* storage.createCollection: the collection row, getAllUsers, then one
\* ownership insert per user, all started before any is awaited; there is
\* no transaction, so what was executed before a failure stays.  owners is
\* the set of user ids whose ownership insert the database executes.
createCollection(D, data, insertOk, usersOk, owners) ==
    IF ~insertOk THEN [db |-> D, ret |-> None, threw |-> TRUE]
    ELSE LET id == D.collectionsSeq + 1
             D1 == [D EXCEPT !.collectionsSeq = id,
                             !.collections =
                                 [c \in DOMAIN D.collections \cup {id} |->
                                     IF c = id THEN data ELSE D.collections[c]]]
         IN  IF ~usersOk THEN [db |-> D1, ret |-> None, threw |-> TRUE]
             ELSE LET D2 == [D1 EXCEPT !.collectionOwners =
                                @ \cup {[collectionId |-> id, userId |-> u.id] :
                                           u \in {x \in users : x.id \in owners}}]
                  IN  [db |-> D2, threw |-> owners # {u.id : u \in users},
                       ret |-> IF owners # {u.id : u \in users} THEN None
                               ELSE Some([id |-> id])]

\* storage.updateCollection: UPDATE ... SET ... WHERE id = $1 RETURNING
updateCollection(D, id, collectionUpdate) ==
    IF id \notin DOMAIN D.collections THEN D
    ELSE [D EXCEPT !.collections[id] =
             [f \in DOMAIN @ |-> IF f \in DOMAIN collectionUpdate
                                  THEN collectionUpdate[f] ELSE @[f]]]

photosOf(D, id) == {p \in DOMAIN D.photos : D.photos[p].collectionId = id}

\* storage.deleteCollection, all statements executed: the photos' files
\* and rows, then the collection row; its ownership rows go by ON DELETE
\* CASCADE
deleteCollection(D, id) ==
    [D EXCEPT !.files = @ \ {D.photos[p].filePath : p \in photosOf(D, id)},
              !.photos = [p \in (DOMAIN @) \ photosOf(D, id) |-> @[p]],
              !.collections = [c \in (DOMAIN @) \ {id} |-> @[c]],
              !.collectionOwners = {o \in @ : o.collectionId # id}]

\* storage.deleteCollection interrupted: the select of the photos fails, or
\* the delete of the first photo row (its file is removed before), or the
\* delete of the collection row (the photos are gone by then)
deleteCollectionFailing(D, id, fault) ==
    IF fault = "selectPhotos" THEN D
    ELSE IF fault = "deletePhoto"
    THEN LET p == CHOOSE x \in photosOf(D, id) : \A y \in photosOf(D, id) : x <= y
         IN  [D EXCEPT !.files = @ \ {D.photos[p].filePath}]
    ELSE [D EXCEPT !.files = @ \ {D.photos[p].filePath : p \in photosOf(D, id)},
                   !.photos = [p \in (DOMAIN @) \ photosOf(D, id) |-> @[p]]]

\* savePhotoToFilesystem followed by storage.createPhoto
\* (the insert fails when the database does, and on the foreign key when
\* the collection does not exist)
createPhoto(D, collectionId, fileOk, insertOk) ==
    IF ~fileOk THEN D
    ELSE LET id == D.photosSeq + 1
             filePath == <<"/uploads/", id>>
             D1 == [D EXCEPT !.files = @ \cup {filePath}]
         IN  IF ~insertOk \/ collectionId \notin DOMAIN D.collections THEN D1
             ELSE [D1 EXCEPT !.photosSeq = id,
                             !.photos =
                                 [p \in DOMAIN D.photos \cup {id} |->
                                     IF p = id
                                     THEN [collectionId |-> collectionId,
                                           filePath |-> filePath]
                                     ELSE D.photos[p]]]

----------------------------------------------------------------------------
(* PUT and DELETE /api/collections/:id, behind requireAuth: user is the    *)
(* account requireAuth attached to the request.  The :id parameter is a    *)
(* string, kept as the sequence of its characters.                         *)

Digits == <<"0", "1", "2", "3", "4", "5", "6", "7", "8", "9">>

isDigit(c) == \E d \in DOMAIN Digits : Digits[d] = c

digitValue(c) == (CHOOSE d \in DOMAIN Digits : Digits[d] = c) - 1

RECURSIVE parseDigits(_, _)
parseDigits(s, acc) ==
    IF s = << >> \/ ~isDigit(Head(s)) THEN acc
    ELSE parseDigits(Tail(s), 10 * acc + digitValue(Head(s)))

\* parseInt(req.params.id): the leading digits, NaN (None) without any
parseInt(s) ==
    IF s = << >> \/ ~isDigit(Head(s)) THEN None ELSE Some(parseDigits(s, 0))

\* the ids the table can hold and one beyond, a word, and an id followed
\* by a letter
Params ==
    {<<Digits[id + 1]>> : id \in 1..(MaxCollections + 1)}
        \cup {<<"x">>, <<"1", "x">>}

\* request bodies of PUT: a new name, and a type outside the enum
Bodies == {[name |-> "renamed"], [type |-> "bogus"]}

\* insertCollectionSchema.partial(): every field optional, type in the enum
validUpdate(body) == "type" \in DOMAIN body => body.type \in CollectionTypes

\* the statement of the route that the database fails to execute, if any
RouteFaults ==
    {"none", "getCollection", "checkOwnership", "update",
     "selectPhotos", "deletePhoto", "deleteCollection"}

\* dbOk: every statement the route sent was executed
Reply(D, status, message, dbOk) ==
    [db |-> D, status |-> status, message |-> message, dbOk |-> dbOk]

\* the ownership check is skipped
putCollection_unguarded(D, user, param, body, fault) ==
    LET id == parseInt(param)
    IN  IF id = None THEN Reply(D, 400, "Invalid collection ID", TRUE)
        ELSE IF getCollection(D, The(id)) = None
        THEN Reply(D, 404, "Collection not found", TRUE)
        ELSE Reply(updateCollection(D, The(id), body), 200, "", TRUE)

\* PUT /api/collections/:id; every exception is answered 400
putCollection(D, user, param, body, fault) ==
    LET id == parseInt(param)
    IN  IF id = None THEN Reply(D, 400, "Invalid collection ID", TRUE)
        ELSE IF fault = "getCollection" THEN Reply(D, 400, "database error", FALSE)
        ELSE IF getCollection(D, The(id)) = None
        THEN Reply(D, 404, "Collection not found", TRUE)
        ELSE IF fault = "checkOwnership" THEN Reply(D, 400, "database error", FALSE)
        ELSE IF ~checkCollectionOwnership(D, The(id), user.id)
        THEN Reply(D, 403, "Not authorized to update this collection", TRUE)
        ELSE IF ~validUpdate(body) THEN Reply(D, 400, "validation error", TRUE)
        ELSE IF fault = "update" THEN Reply(D, 400, "database error", FALSE)
        ELSE Reply(updateCollection(D, The(id), body), 200, "", TRUE)

\* DELETE /api/collections/:id; every exception is answered 500
delCollection(D, user, param, fault) ==
    LET id == parseInt(param)
    IN  IF id = None THEN Reply(D, 400, "Invalid collection ID", TRUE)
        ELSE IF fault = "getCollection"
        THEN Reply(D, 500, "Failed to delete collection", FALSE)
        ELSE IF getCollection(D, The(id)) = None
        THEN Reply(D, 404, "Collection not found", TRUE)
        ELSE IF fault = "checkOwnership"
        THEN Reply(D, 500, "Failed to delete collection", FALSE)
        ELSE IF ~checkCollectionOwnership(D, The(id), user.id)
        THEN Reply(D, 403, "Not authorized to delete this collection", TRUE)
        ELSE IF \/ fault \in {"selectPhotos", "deleteCollection"}
                \/ fault = "deletePhoto" /\ photosOf(D, The(id)) # {}
        THEN Reply(deleteCollectionFailing(D, The(id), fault), 500,
                   "Failed to delete collection", FALSE)
        ELSE Reply(deleteCollection(D, The(id)), 204, "", TRUE)

\* a call on the collections, kept like the calls on the sessions
Did(op, arg, ret, threw, dbOk, status) ==
    [NoCall EXCEPT !.op = op, !.arg = Some(arg), !.ret = Some(ret),
                   !.threw = threw, !.dbOk = dbOk, !.status = status]

UserIds == {u.id : u \in users}

\* storage.createCollection for a collection of the first account
CreateCollection ==
    /\ db.collectionsSeq < MaxCollections
    /\ \E u \in ConcUsers, insertOk, usersOk \in BOOLEAN, owners \in SUBSET UserIds :
          LET data == [name |-> "album", type |-> "custom", userId |-> u.id]
              r == createCollection(db, data, insertOk, usersOk, owners)
          IN  /\ (~insertOk \/ ~usersOk) => owners = {}
              /\ ~insertOk => usersOk
              /\ db' = r.db
              /\ last' = Did("createCollection", data, [id |-> r.db.collectionsSeq],
                             r.threw, ~r.threw, 0)
    /\ UNCHANGED <<now, sessions, pc, loc, rt, sweeps>>

\* a photo is uploaded into a collection
CreatePhoto ==
    /\ db.photosSeq + 1 \in PhotoIds
    /\ \E collectionId \in 1..MaxCollections, fileOk, insertOk \in BOOLEAN :
          /\ db' = createPhoto(db, collectionId, fileOk, insertOk)
          /\ last' = Did("createPhoto", [collectionId |-> collectionId],
                         [id |-> db'.photosSeq], db'.photosSeq = db.photosSeq,
                         fileOk /\ insertOk, 0)
    /\ UNCHANGED <<now, sessions, pc, loc, rt, sweeps>>

\* storage.checkCollectionOwnership(collectionId, userId); a failing select
\* rejects
CheckCollectionOwnership ==
    /\ \E collectionId \in 1..(MaxCollections + 1), userId \in UserIds,
          ok \in BOOLEAN :
          last' = Did("checkCollectionOwnership",
                      [collectionId |-> collectionId, userId |-> userId],
                      [owner |-> ok /\ checkCollectionOwnership(db, collectionId, userId)],
                      ~ok, ok, 0)
    /\ UNCHANGED <<now, sessions, pc, loc, db, rt, sweeps>>

\* PUT /api/collections/:id by an authenticated user; a fault is one the
\* request runs into
PutCollection ==
    /\ \E u \in users, param \in Params, body \in Bodies,
          fault \in {"none", "getCollection", "checkOwnership", "update"} :
          LET r == putCollection(db, userWithoutPassword(u), param, body, fault)
          IN  /\ fault # "none" => ~r.dbOk
              /\ db' = r.db
              /\ last' = Did("putCollection",
                             [userId |-> u.id, param |-> param, body |-> body],
                             [message |-> r.message], FALSE, r.dbOk, r.status)
    /\ UNCHANGED <<now, sessions, pc, loc, rt, sweeps>>

\* DELETE /api/collections/:id by an authenticated user
DeleteCollection ==
    /\ \E u \in users, param \in Params, fault \in RouteFaults \ {"update"} :
          LET r == delCollection(db, userWithoutPassword(u), param, fault)
          IN  /\ fault # "none" => ~r.dbOk
              /\ db' = r.db
              /\ last' = Did("deleteCollection",
                             [userId |-> u.id, param |-> param],
                             [message |-> r.message], FALSE, r.dbOk, r.status)
    /\ UNCHANGED <<now, sessions, pc, loc, rt, sweeps>>

NextColl ==
    \/ CreateCollection
    \/ CreatePhoto
    \/ CheckCollectionOwnership
    \/ PutCollection
    \/ DeleteCollection

SpecColl == Init /\ [][NextColl]_vars

----------------------------------------------------------------------------
(* POST /api/collections and POST /api/photos, behind requireAuth.  Both   *)
(* run their storage calls under withDatabaseRetry with the default of     *)
(* three attempts and answer from one catch block.  A request is followed  *)
(* through every pattern of failures of its statements: the operators      *)
(* yield the set of the replies the request can end with, each with the    *)
(* tables it leaves behind.                                                *)

\* maxRetries = 3, the default the routes call withDatabaseRetry with
DefaultMaxRetries == 3

\* what a statement on the database fails with: the two connection errors,
\* an Error of another kind, and a rejection that is not an Error
StoreErrors(n) ==
    {[kind |-> "Error", message |-> <<"connect", "ETIMEDOUT">>, n |-> n],
     [kind |-> "Error", message |-> <<"read", "ECONNRESET">>, n |-> n],
     [kind |-> "Error", message |-> <<"disk", "full">>, n |-> n],
     [kind |-> "object", message |-> <<"ETIMEDOUT">>, n |-> n]}

\* throw new Error(validationError.message) of validateSchema
ValidationError ==
    [kind |-> "Error", message |-> <<"Validation", "error">>, n |-> 0]

\* throw new Error("Failed to save photo")
SaveError ==
    [kind |-> "Error", message |-> <<"Failed", "to", "save", "photo">>, n |-> 0]

\* insert or update on table "photos" violates foreign key constraint
ForeignKeyError ==
    [kind |-> "Error", message |-> <<"violates", "foreign", "key">>, n |-> 0]

\* the operation handed to withDatabaseRetry
Operation(name, data) == [name |-> name, data |-> data]

\* what the n-th invocation of the operation meets: the statement that fails
\* ("none": all are executed), the users whose ownership insert is executed
\* all the same, and the error of the failing statement
Attempts(operation, n) ==
    IF operation.name = "createCollection"
    THEN {[step |-> "none", owners |-> UserIds, error |-> Value(n)]}
           \cup {[step |-> s, owners |-> {}, error |-> e] :
                    s \in {"insert", "users"}, e \in StoreErrors(n)}
           \cup {[step |-> "owners", owners |-> o, error |-> e] :
                    o \in (SUBSET UserIds) \ {UserIds}, e \in StoreErrors(n)}
    ELSE {[step |-> "none", owners |-> {}, error |-> Value(n)]}
           \cup {[step |-> "insert", owners |-> {}, error |-> e] :
                    e \in StoreErrors(n)}

\* savePhotoToFilesystem(file.buffer, fileName): the file is written under
\* the uploads directory and its path returned
savePhotoToFilesystem(D, fileName) ==
    [D EXCEPT !.files = @ \cup {<<"/uploads/", fileName>>}]

\* storage.createPhoto: INSERT INTO photos ... RETURNING; the insert fails
\* on the foreign key when the collection does not exist
storageCreatePhoto(D, insertPhoto, insertOk) ==
    IF ~insertOk \/ insertPhoto.collectionId \notin DOMAIN D.collections
    THEN [db |-> D, ret |-> None, threw |-> TRUE]
    ELSE LET id == D.photosSeq + 1
         IN  [db |-> [D EXCEPT !.photosSeq = id,
                               !.photos =
                                   [p \in DOMAIN D.photos \cup {id} |->
                                       IF p = id THEN insertPhoto
                                       ELSE D.photos[p]]],
              ret |-> Some([id |-> id]), threw |-> FALSE]

\* await operation(), for the operations the two routes pass
invoke(operation, D, a) ==
    IF operation.name = "createCollection"
    THEN createCollection(D, operation.data, a.step # "insert",
                          a.step # "users", a.owners)
    ELSE storageCreatePhoto(D, operation.data, a.step = "none")

\* the error the invocation rejects with
thrown(operation, D, a) ==
    IF /\ operation.name = "createPhoto"
       /\ a.step = "none"
       /\ operation.data.collectionId \notin DOMAIN D.collections
    THEN ForeignKeyError
    ELSE a.error

\* how a call of withDatabaseRetry ended: the tables, the value returned or
\* the error thrown, and the number of invocations made
Settled(D, ret, error, attempts) ==
    [db |-> D, ret |-> ret, error |-> error, attempts |-> attempts]

\* withDatabaseRetry(operation, maxRetries) from the given attempt on: the
\* value of the first invocation that resolves; a connection error is
\* followed by another invocation while attempts are left, any other error
\* is thrown at once
RECURSIVE withDatabaseRetry(_, _, _, _)
withDatabaseRetry(operation, D, attempt, maxRetries) ==
    IF ~inLoop(attempt, maxRetries)
    THEN {Settled(D, None, Some(Undefined), attempt - 1)}
    ELSE UNION {
           LET r == invoke(operation, D, a)
               e == thrown(operation, D, a)
           IN  IF ~r.threw THEN {Settled(r.db, r.ret, None, attempt)}
               ELSE IF isTransient(e) /\ mayRetry(attempt, maxRetries)
               THEN withDatabaseRetry(operation, r.db, attempt + 1, maxRetries)
               ELSE {Settled(r.db, None, Some(e), attempt)} :
           a \in Attempts(operation, attempt)}

\* the answer of a route: the tables left behind, status and code of the
\* response, the error caught (if any) and the invocations made by the call
\* of withDatabaseRetry that threw it
Answer(D, status, code, error, attempts) ==
    [db |-> D, status |-> status, code |-> code, error |-> error,
     attempts |-> attempts]

\* the catch block of both routes
caught(D, error, attempts) ==
    IF error.kind = "Error" /\ includes(error.message, "ETIMEDOUT")
    THEN Answer(D, 503, "DATABASE_TIMEOUT", Some(error), attempts)
    ELSE IF error.kind = "Error" /\ includes(error.message, "ECONNRESET")
    THEN Answer(D, 503, "CONNECTION_RESET", Some(error), attempts)
    ELSE Answer(D, 400, "CREATION_FAILED", Some(error), attempts)

\* request bodies of POST /api/collections: a name, no name, a type outside
\* the enum
PostBodies ==
    {[name |-> "album", type |-> ""], [name |-> "", type |-> ""],
     [name |-> "album", type |-> "bogus"]}

\* insertCollectionSchema: a name and a type of the enum
validInsert(data) == data.name # "" /\ data.type \in CollectionTypes

\* the upload of one file of the request into the collection, then 201
uploadPhoto(D, collection) ==
    LET fileName == D.photosSeq + 1
    IN  {caught(D, SaveError, 0)}
          \cup UNION {
                 IF p.error # None THEN {caught(p.db, The(p.error), p.attempts)}
                 ELSE {Answer(p.db, 201, "", None, p.attempts)} :
                 p \in withDatabaseRetry(
                          Operation("createPhoto",
                                    [collectionId |-> collection.id,
                                     filePath |-> <<"/uploads/", fileName>>]),
                          savePhotoToFilesystem(D, fileName), 1,
                          DefaultMaxRetries)}

\* POST /api/collections with the given number of uploaded files
postCollections(D, user, body, files) ==
    LET data == [name |-> body.name,
                 type |-> IF body.type = "" THEN "custom" ELSE body.type,
                 userId |-> user.id]
    IN  IF body.name = "" THEN {Answer(D, 400, "", None, 0)}
        ELSE IF ~validInsert(data) THEN {caught(D, ValidationError, 0)}
        ELSE UNION {
               IF c.error # None THEN {caught(c.db, The(c.error), c.attempts)}
               ELSE IF files = 0 THEN {Answer(c.db, 201, "", None, c.attempts)}
               ELSE uploadPhoto(c.db, The(c.ret)) :
               c \in withDatabaseRetry(Operation("createCollection", data), D, 1,
                                       DefaultMaxRetries)}

\* POST /api/photos: the file is saved first, then the body validated
\* (collectionId: parseInt(req.body.collectionId)), then the row inserted
postPhotos(D, user, file, collectionId) ==
    LET fileName == D.photosSeq + 1
        D1 == savePhotoToFilesystem(D, fileName)
    IN  IF ~file THEN {Answer(D, 400, "", None, 0)}
        ELSE {caught(D, SaveError, 0)}
               \cup IF parseInt(collectionId) = None
                    THEN {caught(D1, ValidationError, 0)}
                    ELSE UNION {
                           IF p.error # None
                           THEN {caught(p.db, The(p.error), p.attempts)}
                           ELSE {Answer(p.db, 201, "", None, p.attempts)} :
                           p \in withDatabaseRetry(
                                    Operation("createPhoto",
                                              [collectionId |->
                                                   The(parseInt(collectionId)),
                                               filePath |->
                                                   <<"/uploads/", fileName>>]),
                                    D1, 1, DefaultMaxRetries)}

\* POST /api/collections by an authenticated user
PostCollections ==
    /\ db.collectionsSeq < MaxCollections
    /\ \E u \in ConcUsers, body \in PostBodies, files \in 0..1 :
          /\ files > 0 => db.photosSeq + 1 \in PhotoIds
          /\ \E r \in postCollections(db, userWithoutPassword(u), body, files) :
                /\ db' = r.db
                /\ last' = Did("postCollections",
                               [userId |-> u.id, body |-> body, files |-> files],
                               [code |-> r.code, error |-> r.error,
                                attempts |-> r.attempts],
                               FALSE, r.error = None, r.status)
    /\ UNCHANGED <<now, sessions, pc, loc, rt, sweeps>>

\* POST /api/photos by an authenticated user
PostPhotos ==
    /\ db.photosSeq + 1 \in PhotoIds
    /\ \E u \in ConcUsers, file \in BOOLEAN, collectionId \in Params :
          \E r \in postPhotos(db, userWithoutPassword(u), file, collectionId) :
              /\ db' = r.db
              /\ last' = Did("postPhotos",
                             [userId |-> u.id, file |-> file,
                              collectionId |-> collectionId],
                             [code |-> r.code, error |-> r.error,
                              attempts |-> r.attempts],
                             FALSE, r.error = None, r.status)
    /\ UNCHANGED <<now, sessions, pc, loc, rt, sweeps>>

NextPost ==
    \/ PostCollections
    \/ PostPhotos

SpecPost == Init /\ [][NextPost]_vars

----------------------------------------------------------------------------
(* Logging a user out everywhere: sessions of both accounts under three    *)
(* session ids, and DatabaseSessionStore.deleteUserSessions.               *)

UserTokens == Tokens \cup {"s3"}

\* AuthService.createSession under an id that is not stored
UserCreateSession ==
    \E sessionId \in UserTokens \ DOMAIN sessions, u \in users :
        LET r == createSession(sessions, sessionId, u.id, u.username, now, TRUE)
        IN  /\ sessions' = r.store
            /\ last' = Call("createSession", sessionId,
                            Some([userId |-> u.id, username |-> u.username]),
                            Some([sessionId |-> sessionId]), r.threw, TRUE, 0)
            /\ UNCHANGED <<now, pc, loc, db, rt, sweeps>>

\* databaseSessionStore.deleteUserSessions(userId)
DeleteUserSessions ==
    \E u \in users, ok \in BOOLEAN :
        LET r == storeDeleteUserSessions(sessions, u.id, ok)
        IN  /\ sessions' = r.store
            /\ last' = Call("deleteUserSessions", NoToken,
                            Some([userId |-> u.id, username |-> u.username]),
                            Some([rowCount |-> r.ret]), FALSE, ok, 0)
            /\ UNCHANGED <<now, pc, loc, db, rt, sweeps>>

NextUser ==
    \/ Advance
    \/ UserCreateSession
    \/ DeleteUserSessions

SpecUser == Init /\ [][NextUser]_vars

----------------------------------------------------------------------------
(* The hourly sweep as the only reader of the table: sessions are created  *)
(* and never looked up, the clock moves on, and the timers of auth.ts and  *)
(* of the DatabaseSessionStore constructor run cleanExpiredSessions.       *)

NextSweep ==
    \/ Advance
    \/ CreateSession
    \/ CleanExpiredSessions

SpecSweep == Init /\ [][NextSweep]_vars

\* the timers keep firing, and again and again the DELETE of a sweep is
\* executed by the database
SpecSweepFair ==
    SpecSweep /\ WF_vars(CleanExpiredSessions /\ last'.dbOk)

----------------------------------------------------------------------------
(* The sweep step by step.  Two timers run cleanExpiredSessions every      *)
(* hour: setInterval in auth.ts and setInterval in the constructor of      *)
(* DatabaseSessionStore.  A callback builds DELETE ... WHERE expires_at <  *)
(* new Date() and awaits it; the database executes the statement later.    *)
(* sweeps holds, for each execution in progress, the date of its           *)
(* statement, oldest first.  The constructor's initial cleanup runs on     *)
(* the empty table of the initial state and is over.                       *)

\* executions of cleanExpiredSessions in progress at once
MaxSweeps == 2

Timers == {"auth.ts", "databaseSessionStore.ts"}

\* the sequence without its i-th element
Without(s, i) == SubSeq(s, 1, i - 1) \o SubSeq(s, i + 1, Len(s))

\* a timer fires, an hour after the start at the earliest: its callback
\* calls cleanExpiredSessions, whatever is in progress
TimerFires ==
    /\ now >= HOUR
    /\ Len(sweeps) < MaxSweeps
    /\ \E timer \in Timers :
          last' = [Step("cleanExpiredSessions.start", NoToken)
                     EXCEPT !.arg = Some([timer |-> timer])]
    /\ sweeps' = Append(sweeps, now)
    /\ UNCHANGED <<now, sessions, pc, loc, db, rt>>

\* the statement of an execution in progress is executed, or fails and is
\* swallowed
SweepSettles ==
    /\ \E i \in DOMAIN sweeps, ok \in BOOLEAN :
          /\ sessions' = storeCleanExpiredSessions(sessions, sweeps[i], ok).store
          /\ sweeps' = Without(sweeps, i)
    /\ last' = Step("cleanExpiredSessions.end", NoToken)
    /\ UNCHANGED <<now, pc, loc, db, rt>>

NextTimers ==
    \/ Advance
    \/ FreshCreateSession
    \/ TimerFires
    \/ SweepSettles

SpecTimers == Init /\ [][NextTimers]_vars

----------------------------------------------------------------------------
(* Claims about the middleware *)

\* C11: session lookup fails closed: when the database fails to execute a
\* statement of getSession (the select, the lazy delete or the refresh
\* upsert), the lookup yields no session without throwing into the
\* middleware and the request is treated as unauthenticated: requireAuth
\* answers 401 without calling next, optionalAuth attaches no user
C11_FailsClosed ==
    (last.op \in {"requireAuth", "optionalAuth"} /\ ~last.dbOk)
        => /\ ~last.threw
           /\ The(last.ret).user = None
           /\ last.op = "requireAuth"
                 => (last.status = 401 /\ The(last.ret).next = 0)

\* C12: requireAuth calls next only for a request that carries a token whose
\* session is live (now < expiresAt) and whose account exists, and then
\* req.user is that account without its password; a request with no token,
\* with a token that is unknown or expired (expiresAt <= now), or whose
\* account is missing is answered 401 and next is not called
C12_RequireAuthGate ==
    last.op = "requireAuth" =>
        /\ The(last.ret).next = 1 =>
              /\ last.status = 0
              /\ last.tok # NoToken
              /\ last.pre # None
              /\ now < The(last.pre).expiresAt
              /\ The(last.arg).account = "found"
              /\ The(last.ret).user # None
              /\ "password" \notin DOMAIN The(The(last.ret).user)
              /\ \E u \in users :
                    /\ u.id = The(last.pre).userId
                    /\ \A f \in (DOMAIN u) \ {"password"} :
                          The(The(last.ret).user)[f] = u[f]
        /\ (\/ last.tok = NoToken
            \/ last.pre = None
            \/ now >= The(last.pre).expiresAt
            \/ The(last.arg).account = "missing")
              => (last.status = 401 /\ The(last.ret).next = 0)

\* C13: optionalAuth never rejects: for every request it calls next exactly
\* once and sends no response, and it sets req.user only when the token's
\* session is live (now < expiresAt) and its account exists
C13_OptionalAuthNeverRejects ==
    last.op = "optionalAuth" =>
        /\ The(last.ret).next = 1
        /\ last.status = 0
        /\ The(last.ret).user # None =>
              /\ last.tok # NoToken
              /\ last.pre # None
              /\ now < The(last.pre).expiresAt
              /\ The(last.arg).account = "found"

\* the request of a middleware call carries "Authorization: Bearer <tok>"
BearerHeader(tok) == The(last.arg).authorization = Some(<<Bearer, tok>>)

\* the session of a Bearer header decides: it is the one attached to the
\* request, requireAuth accepts only if the header token has a session, and
\* rejects with 401 a header token the store does not know, whatever the
\* cookie carries
HeaderDecides ==
    \A tok \in Tokens :
        (last.op \in {"requireAuth", "optionalAuth"} /\ BearerHeader(tok)) =>
            /\ The(last.ret).sessionId \in {None, Some(tok)}
            /\ The(last.ret).user # None => The(last.ret).sessionId = Some(tok)
            /\ last.op = "requireAuth" =>
                  /\ The(last.ret).next = 1 => tok \in DOMAIN sessions
                  /\ (tok \notin DOMAIN sessions /\ ~last.threw)
                        => last.status = 401

\* C14, as claimed: with an Authorization: Bearer <token> header and a
\* sessionId cookie the session resolved and the decision are those of the
\* header token, and the cookie token is used only when the request has no
\* Authorization header
C14_HeaderPrecedence ==
    /\ HeaderDecides
    /\ \A tok \in Tokens :
          (/\ last.op \in {"requireAuth", "optionalAuth"}
           /\ The(last.arg).cookie = Some(tok)
           /\ The(last.arg).authorization # None
           /\ ~BearerHeader(tok))
             => last.tok # tok

\* C14, amended: the cookie token is used only when the request has no
\* Authorization header or the header, once 'Bearer ' is removed, is the
\* empty string
C14_HeaderPrecedenceAmended ==
    /\ HeaderDecides
    /\ \A tok \in Tokens :
          (/\ last.op \in {"requireAuth", "optionalAuth"}
           /\ The(last.arg).cookie = Some(tok)
           /\ The(last.arg).authorization \notin {None, Some(<< >>), Some(<<Bearer>>)}
           /\ ~BearerHeader(tok))
             => last.tok # tok

\* a request whose header carries an unknown token and whose cookie carries
\* the token of a live session is rejected
C14_Witness ==
    /\ last.op = "requireAuth"
    /\ BearerHeader("s2") /\ The(last.arg).cookie = Some("s1")
    /\ "s1" \in DOMAIN sessions /\ Live(sessions["s1"])
    /\ last.status = 401

\* C15: POST /api/auth/logout deletes the caller's session: once the
\* request has been answered 200 the row of its token no longer exists and
\* every getSession of that token from then on returns null
C15_LogoutDeletes ==
    (last.op = "logout" /\ last.status = 200)
        => /\ last.tok \notin DOMAIN sessions
           /\ \A t \in Instants : t >= now =>
                 getSession(sessions, last.tok, t, TRUE, TRUE, TRUE).ret = None

----------------------------------------------------------------------------
(* Claims about withDatabaseRetry *)

Failed(i) == rt.outcomes[i].kind # "value"

Transient(i) ==
    /\ rt.outcomes[i].kind = "Error"
    /\ \/ rt.outcomes[i].message = <<"connect", "ETIMEDOUT">>
       \/ rt.outcomes[i].message = <<"read", "ECONNRESET">>

Done == rt.pc \in {"returned", "threw"}

\* C18: withDatabaseRetry(operation, 3) on an operation that fails twice
\* with a transient error and then succeeds waits 1000 ms after the first
\* failure and 2000 ms after the second, invokes the operation a third
\* time and returns that invocation's value; the operation is invoked
\* exactly three times
C18_RetryThenSuccess ==
    (rt.maxRetries = 3 /\ Len(rt.outcomes) >= 2 /\ Transient(1) /\ Transient(2))
        => /\ rt.delays = <<1000, 2000>>
           /\ Len(rt.outcomes) <= 3
           /\ Len(rt.outcomes) = 2 => rt.pc \in {"waiting", "calling"}
           /\ (Len(rt.outcomes) = 3 /\ ~Failed(3))
                 => (rt.pc = "returned" /\ rt.result = Some(Value(3)))

C18_Witness ==
    /\ rt.maxRetries = 3 /\ rt.pc = "returned"
    /\ Len(rt.outcomes) = 3 /\ Transient(1) /\ Transient(2)

\* C19: a failure that is not classified transient is never retried: it is
\* the last invocation, whatever its attempt number, and the error it
\* raised is the one thrown to the caller
C19_PermanentNotRetried ==
    \A i \in DOMAIN rt.outcomes :
        (Failed(i) /\ ~Transient(i))
            => /\ i = Len(rt.outcomes)
               /\ rt.pc = "threw"
               /\ rt.result = Some(rt.outcomes[i])

\* a permanent failure on the third attempt, after two retried ones
C19_Witness ==
    /\ rt.pc = "threw" /\ Len(rt.outcomes) = 3
    /\ Transient(1) /\ Transient(2) /\ ~Transient(3)

\* the operation is never invoked more than maxRetries times, the attempt
\* counter never passes maxRetries while the call runs, and when every
\* invocation failed transiently the call ends by throwing after exactly
\* maxRetries invocations, with the error of the last invocation
WithinBudget ==
    /\ Len(rt.outcomes) <= rt.maxRetries
    /\ rt.pc \in {"calling", "waiting"} =>
          (rt.attempt <= rt.maxRetries /\ Len(rt.delays) < rt.maxRetries)
    /\ (Done /\ \A i \in DOMAIN rt.outcomes : Transient(i))
          => /\ rt.pc = "threw"
             /\ Len(rt.outcomes) = rt.maxRetries
             /\ rt.outcomes # << >> =>
                   rt.result = Some(rt.outcomes[Len(rt.outcomes)])
    /\ (~Done /\ rt.pc # "idle" /\ \A i \in DOMAIN rt.outcomes : Transient(i))
          => Len(rt.outcomes) < rt.maxRetries

\* C20: withDatabaseRetry always terminates within its budget: every call
\* ends, by returning or by throwing, and for an operation that keeps
\* failing transiently it ends after exactly maxRetries invocations (never
\* more) by throwing the error of the last invocation
C20_TerminatesWithinBudget ==
    /\ []WithinBudget
    /\ (rt.pc # "idle") ~> Done

\* the budget of five attempts is used up, the last delay at the 5000 ms cap
C20_Witness ==
    /\ rt.pc = "threw" /\ rt.maxRetries = 5 /\ Len(rt.outcomes) = 5
    /\ \A i \in DOMAIN rt.outcomes : Transient(i)
    /\ rt.delays = <<1000, 2000, 4000, 5000>>

----------------------------------------------------------------------------
(* Claims about collections *)

HasOwnerRow(collectionId, userId) ==
    [collectionId |-> collectionId, userId |-> userId] \in db.collectionOwners

\* C16: checkCollectionOwnership(collectionId, userId) returns false,
\* without throwing, when the collection does not exist and when it exists
\* but has no ownership row for the user, and returns true exactly when the
\* ownership row (collectionId, userId) exists
C16_OwnershipCheck ==
    (last.op = "checkCollectionOwnership" /\ last.dbOk) =>
        LET a == The(last.arg)
        IN  /\ ~last.threw
            /\ a.collectionId \notin DOMAIN db.collections
                  => The(last.ret).owner = FALSE
            /\ ~HasOwnerRow(a.collectionId, a.userId)
                  => The(last.ret).owner = FALSE
            /\ The(last.ret).owner = HasOwnerRow(a.collectionId, a.userId)

\* the check for a user without a row, on a collection another user owns
C16_Witness ==
    /\ last.op = "checkCollectionOwnership" /\ last.dbOk
    /\ The(last.arg).collectionId \in DOMAIN db.collections
    /\ ~HasOwnerRow(The(last.arg).collectionId, The(last.arg).userId)
    /\ \E u \in UserIds : HasOwnerRow(The(last.arg).collectionId, u)
    /\ The(last.ret).owner = FALSE

\* the collection id a request names, 0 when :id is not a number
RequestedId(call) ==
    IF parseInt(The(call.arg).param) = None THEN 0
    ELSE The(parseInt(The(call.arg).param))

\* C17: PUT and DELETE /api/collections/:id change a collection only for a
\* user with an ownership row for it: a request for a collection that does
\* not exist is answered 404, a request by a user without an ownership row
\* is answered 403, and in both cases collections, photos, files and
\* ownership rows stay as they were; whenever a request changes anything,
\* the requested collection existed and the user had an ownership row
C17_OwnersOnly ==
    [][last'.op \in {"putCollection", "deleteCollection"} =>
        LET id == RequestedId(last')
            userId == The(last'.arg).userId
        IN  /\ (id # 0 /\ id \notin DOMAIN db.collections /\ last'.dbOk)
                  => (last'.status = 404 /\ db' = db)
            /\ (/\ id \in DOMAIN db.collections
                /\ ~HasOwnerRow(id, userId)
                /\ last'.dbOk)
                  => (last'.status = 403 /\ db' = db)
            /\ last'.status \in {403, 404} => db' = db
            /\ db' # db => (id \in DOMAIN db.collections /\ HasOwnerRow(id, userId))
            /\ last'.status \in {200, 204}
                  => (id \in DOMAIN db.collections /\ HasOwnerRow(id, userId))]_vars

\* a non-owner was refused while the collection has an owner and a photo
C17_Witness ==
    /\ last.op \in {"putCollection", "deleteCollection"}
    /\ last.status = 403
    /\ RequestedId(last) \in DOMAIN db.collections
    /\ ~HasOwnerRow(RequestedId(last), The(last.arg).userId)
    /\ \E u \in UserIds : HasOwnerRow(RequestedId(last), u)
    /\ \E p \in DOMAIN db.photos : db.photos[p].collectionId = RequestedId(last)

----------------------------------------------------------------------------
(* Claims about what a call on the session store leaves alone *)

\* the rows of the tokens other than tok are the same before and after
OthersUnchanged(tok) ==
    /\ (DOMAIN sessions') \ {tok} = (DOMAIN sessions) \ {tok}
    /\ \A t \in (DOMAIN sessions) \ {tok} : sessions'[t] = sessions[t]

\* C22: several sessions of one identity coexist: a createSession adds a
\* row under a token that was not stored and leaves every row stored before
\* (of the same user and of every other user) present and unchanged; an
\* executed deleteSession removes the row of its token and no other row.
C22_SessionsCoexist ==
    [][/\ (last'.op = "createSession" /\ ~last'.threw) =>
             /\ last'.tok \notin DOMAIN sessions
             /\ last'.tok \in DOMAIN sessions'
             /\ \A t \in DOMAIN sessions :
                   t \in DOMAIN sessions' /\ sessions'[t] = sessions[t]
       /\ (last'.op = "deleteSession" /\ last'.dbOk) =>
             /\ last'.tok \notin DOMAIN sessions'
             /\ OthersUnchanged(last'.tok)]_vars

\* C23: deleteUserSessions(userId) logs the identity out everywhere: once
\* the statement is executed no row with that userId remains, getSession
\* returns null for each of the user's former tokens from then on, and the
\* rows of every other userId are present and unchanged.
C23_LoggedOutEverywhere ==
    [][(last'.op = "deleteUserSessions" /\ last'.dbOk) =>
          LET userId == The(last'.arg).userId
          IN  /\ \A t \in DOMAIN sessions' : sessions'[t].userId # userId
              /\ \A t \in DOMAIN sessions :
                    IF sessions[t].userId = userId
                    THEN \A i \in Instants : i >= now =>
                            getSession(sessions', t, i, TRUE, TRUE, TRUE).ret = None
                    ELSE t \in DOMAIN sessions' /\ sessions'[t] = sessions[t]
              /\ DOMAIN sessions' \subseteq DOMAIN sessions]_vars

\* two sessions of the user were removed and the session of the other
\* account is left
C23_Witness ==
    /\ last.op = "deleteUserSessions" /\ last.dbOk
    /\ The(last.ret).rowCount = 2
    /\ \E t \in DOMAIN sessions : sessions[t].userId # The(last.arg).userId

\* C25: the identity bound to a token never changes: a row that stays
\* stored keeps its userId and username whatever is called (a refresh
\* changes expiresAt only), and a createSession, whatever token
\* generateSessionId yields, stores its row under a token that had no row.
C25_IdentityNeverChanges ==
    [][/\ \A t \in (DOMAIN sessions) \cap (DOMAIN sessions') :
             /\ sessions'[t].userId = sessions[t].userId
             /\ sessions'[t].username = sessions[t].username
       /\ (last'.op \in {"createSession", "login"} /\ last'.tok # NoToken
              /\ last'.tok \in DOMAIN sessions') =>
             (last'.tok \notin DOMAIN sessions
                 \/ sessions'[last'.tok] = sessions[last'.tok])]_vars

\* C26: getSession is read-only outside the expiry and refresh cases: the
\* lookup of a token that is not stored, and the lookup of a live session
\* with expiresAt - now >= SESSION_REFRESH_THRESHOLD, leave the whole
\* sessions table unchanged, and the second returns the row as stored.
C26_LookupReadOnly ==
    [][(last'.op = "getSession" /\ last'.dbOk) =>
          /\ last'.pre = None => (sessions' = sessions /\ last'.ret = None)
          /\ (/\ last'.pre # None
              /\ now < The(last'.pre).expiresAt
              /\ The(last'.pre).expiresAt - now >= SESSION_REFRESH_THRESHOLD) =>
                (sessions' = sessions /\ last'.ret = last'.pre)]_vars

\* a session looked up exactly SESSION_REFRESH_THRESHOLD before it expires,
\* next to another session
C26_Witness ==
    /\ last.op = "getSession" /\ last.dbOk
    /\ now = 6 * DAY
    /\ last.pre # None
    /\ The(last.pre).expiresAt - now = SESSION_REFRESH_THRESHOLD
    /\ last.ret = last.pre
    /\ Cardinality(DOMAIN sessions) = 2

----------------------------------------------------------------------------
(* Claims about the periodic sweep *)

\* the row of the token is one whose expiresAt has passed
Leaked(t) == t \in DOMAIN sessions /\ sessions[t].expiresAt < now

\* C27: no expired session leaks forever: a row whose expiresAt has passed
\* is eventually removed from the table without any lookup of its token,
\* provided the timers keep firing and a sweep's DELETE is executed again
\* and again.
C27_NoLeak == \A t \in Tokens : Leaked(t) ~> ~Leaked(t)

\* a sweep has removed an expired row that nobody looked up
C27_Witness ==
    /\ last.op = "cleanExpiredSessions" /\ last.dbOk
    /\ The(last.ret).rowCount > 0

\* C28: the periodic sweep never overlaps with itself: at no time are two
\* executions of cleanExpiredSessions in progress; a timer that fires
\* while one is running starts no other.
C28_SweepNeverOverlaps == Len(sweeps) <= 1

----------------------------------------------------------------------------
(* Claims about POST /api/collections and POST /api/photos *)

\* the error a request of one of the two routes was answered for, if any
CaughtError == IF last.ret = None THEN None ELSE The(last.ret).error

Posted == last.op \in {"postCollections", "postPhotos"}

\* a failure of the store itself, not of the request's validation, of the
\* uploads directory or of a constraint
StoreFailure(e) == e \in StoreErrors(e.n)

Timeout(e) == e.kind = "Error" /\ includes(e.message, "ETIMEDOUT")

ConnectionReset(e) == e.kind = "Error" /\ includes(e.message, "ECONNRESET")

Permanent(e) ==
    ~includes(e.message, "ETIMEDOUT") /\ ~includes(e.message, "ECONNRESET")

\* the transient half of C21 alone: a timeout or a connection reset is
\* answered only after the third invocation, 503 with its code
TransientSurfacedLast ==
    (Posted /\ CaughtError # None) =>
        LET e == The(CaughtError)
        IN  /\ Timeout(e) =>
                /\ The(last.ret).attempts = DefaultMaxRetries
                /\ last.status = 503
                /\ The(last.ret).code = "DATABASE_TIMEOUT"
            /\ (ConnectionReset(e) /\ ~Timeout(e)) =>
                /\ The(last.ret).attempts = DefaultMaxRetries
                /\ last.status = 503
                /\ The(last.ret).code = "CONNECTION_RESET"

\* C21: a request to create a collection or a photo that ends on a
\* permanent store failure is answered with a 5xx status; one that ends on
\* a timeout or a connection reset is answered only after the retry budget
\* is used up, with code DATABASE_TIMEOUT or CONNECTION_RESET.
C21_StoreFailureSurfaced ==
    (Posted /\ CaughtError # None /\ StoreFailure(The(CaughtError))) =>
        /\ Permanent(The(CaughtError)) => last.status \in 500..599
        /\ TransientSurfacedLast

\* the collection rows a step adds
Created == (DOMAIN db'.collections) \ (DOMAIN db.collections)

\* the step is a POST /api/collections without files in which nothing but
\* timeouts and connection resets of storage.createCollection went wrong
OnlyTransientFailures ==
    /\ last'.op = "postCollections"
    /\ The(last'.arg).files = 0
    /\ last'.status # 201 =>
          /\ The(last'.ret).error # None
          /\ LET e == The(The(last'.ret).error)
             IN  StoreFailure(e) /\ (Timeout(e) \/ ConnectionReset(e))

\* C29: retries do not repeat side effects: whatever timeouts and
\* connection resets storage.createCollection runs into, a POST
\* /api/collections answered 201 has added exactly one collection row and
\* the ownership rows of that collection, and one answered with an error
\* has added no collection row and no ownership row.
C29_RetriesRepeatNothing ==
    [][OnlyTransientFailures =>
          /\ last'.status = 201 =>
                /\ Cardinality(Created) = 1
                /\ db'.collectionOwners \ db.collectionOwners =
                       {[collectionId |-> c, userId |-> u] :
                            c \in Created, u \in UserIds}
          /\ last'.status # 201 =>
                /\ Created = {}
                /\ db'.collectionOwners = db.collectionOwners]_vars

----------------------------------------------------------------------------
(* Claims about interleaved requests *)

\* C3: Deleted is final: under every interleaving of getSession (with its
\* refresh write), deleteSession, lazy expiry and cleanExpiredSessions, a
\* token without a row gets a row only from createSession generating it
C3_DeletedIsFinal ==
    [][\A t \in Tokens :
          (t \notin DOMAIN sessions /\ t \in DOMAIN sessions')
             => (last'.op = "createSession" /\ last'.tok = t)]_vars

\* C24: concurrent refreshes never shorten a session: under every
\* interleaving of the reads and upserts of getSession calls on one token,
\* no upsert of a refresh replaces the stored expiresAt by a smaller one.
C24_RefreshNeverShortens ==
    [][\A t \in (DOMAIN sessions) \cap (DOMAIN sessions') :
          last'.op = "get.refresh" =>
              sessions'[t].expiresAt >= sessions[t].expiresAt]_vars

\* C30: requireAuth completes every request in exactly one way, whatever
\* the session lookup and the account lookup yield (found, not found,
\* error): either one response is sent, 401 or 500, and next is not
\* called, or next is called once and no response is sent.
C30_CompletesOnce ==
    last.op = "requireAuth" =>
        \/ last.status \in {401, 500} /\ The(last.ret).next = 0
        \/ last.status = 0 /\ The(last.ret).next = 1

\* the account lookup of a resolved session failed: 500, next not called
C30_Witness ==
    /\ last.op = "requireAuth"
    /\ The(last.arg).account = "error"
    /\ The(last.ret).sessionId # None
    /\ last.status = 500 /\ The(last.ret).next = 0

====
